---- MODULE Spec2Model ----
(***************************************************************************)
(* Model of the ERN/EID identifier library: segment types, the identifier  *)
(* value type (src/model/ern.rs), root synthesis (src/model/root.rs), the  *)
(* typed builder and its accumulator (src/builder.rs) and the parser.      *)
(*                                                                         *)
(* Strings are sequences of one-character strings, so that formatting and  *)
(* parsing are computed character by character.                            *)
(***************************************************************************)
EXTENDS Integers, Sequences, FiniteSets, TLC

VARIABLES
    st,        \* typed builder: the state marker (the segment kind type parameter)
    acc,       \* PrivateErnBuilder: the accumulator's slots
    supplied,  \* history: kind, raw value and success of every call made on the builder
    outcome,   \* the Result of the last fallible builder call that ended the builder
    parsed,    \* the Result of parsing the built identifier's rendered form
    nextId,    \* the unique-value generator's position
    minted,    \* history: raw value and result of every successful Root::new, in call order
    p,         \* an identifier value held by the caller (the receiver of Eid methods)
    last       \* the last identifier operation: its name, receiver, argument and output

vars == <<st, acc, supplied, outcome, parsed, nextId, minted, p, last>>

----------------------------------------------------------------------------
(* Bounds *)

MaxParts == 2      \* longest parts sequence the builder / with_parts is driven to
MaxIds == 3        \* number of root syntheses in one behaviour

----------------------------------------------------------------------------
(* Strings *)

SEP == ":"         \* the segment separator character
HSEP == "/"        \* the hierarchy separator character

\* The raw inputs handed to the constructors: empty, plain, leading ':',
\* embedded ':', embedded '/'.
Raws ==
    { <<>>, <<"a">>, <<"b">>, <<":", "a">>, <<"a", ":">>, <<"a", "/", "b">> }

Contains(s, ch) == \E i \in 1..Len(s) : s[i] = ch

\* index of the first occurrence of ch in s, 0 when there is none
IndexOf(s, ch) ==
    IF Contains(s, ch)
    THEN CHOOSE i \in 1..Len(s) : s[i] = ch /\ \A j \in 1..(i-1) : s[j] # ch
    ELSE 0

StartsWith(s, pre) ==
    Len(pre) <= Len(s) /\ SubSeq(s, 1, Len(pre)) = pre

\* str::splitn(n, ch): at most n fields, the last one holding the rest
RECURSIVE SplitN(_, _, _)
SplitN(s, ch, n) ==
    IF n <= 1 \/ ~Contains(s, ch)
    THEN <<s>>
    ELSE LET i == IndexOf(s, ch)
         IN <<SubSeq(s, 1, i-1)>> \o SplitN(SubSeq(s, i+1, Len(s)), ch, n-1)

\* str::split(ch): every field
RECURSIVE Split(_, _)
Split(s, ch) ==
    IF ~Contains(s, ch)
    THEN <<s>>
    ELSE LET i == IndexOf(s, ch)
         IN <<SubSeq(s, 1, i-1)>> \o Split(SubSeq(s, i+1, Len(s)), ch)

\* the elements of ss joined by the character ch
RECURSIVE Join(_, _)
Join(ss, ch) ==
    IF Len(ss) = 0 THEN <<>>
    ELSE IF Len(ss) = 1 THEN ss[1]
    ELSE ss[1] \o <<ch>> \o Join(Tail(ss), ch)

\* all sequences over S of length at most n
RECURSIVE SeqsUpTo(_, _)
SeqsUpTo(S, n) ==
    IF n = 0 THEN { <<>> }
    ELSE LET shorter == SeqsUpTo(S, n-1)
         IN shorter \cup { Append(s, x) : s \in { t \in shorter : Len(t) = n-1 }, x \in S }

----------------------------------------------------------------------------
(* Result and Option values *)

Ok(v) == [ok |-> TRUE, val |-> v]
Err(kind, arg) == [ok |-> FALSE, err |-> [kind |-> kind, arg |-> arg]]
None == [some |-> FALSE]
Some(v) == [some |-> TRUE, val |-> v]
NoResult == [ok |-> FALSE, err |-> [kind |-> "NotCalled", arg |-> <<>>]]

----------------------------------------------------------------------------
(* Segment types.  A segment value is its string. *)

ACTON == <<"a", "c", "t", "o", "n">>

\* ErnComponent::prefix() of Domain; Display writes it in front of the domain
DomainPrefix == <<"e", "i", "d", ":">>

\* the format rule of a validated segment: not empty, no leading ':', no '/'
FormatViolation(raw) ==
    \/ Len(raw) = 0
    \/ raw[1] = SEP
    \/ Contains(raw, HSEP)

\* Domain::new / Domain::from_str: validating
Domain_new(raw) ==
    IF FormatViolation(raw) THEN Err("ParseFailure", <<"Domain">>) ELSE Ok(raw)

Domain_default == ACTON

\* Category::new / Category::from_str: infallible, any string
Category_new(raw) == raw

Category_default == <<>>

\* Account::new / Account::from_str: infallible, any string
Account_new(raw) == raw

Account_default == <<>>

\* Part::new / Part::from_str: validating
Part_new(raw) ==
    IF FormatViolation(raw) THEN Err("IllegalPartFormat", <<>>) ELSE Ok(raw)

\* Parts::new(Vec::new()) / Parts::default()
Parts_default == <<>>

\* Parts::add_part: the sequence with one part appended
Parts_add_part(parts, part) == Append(parts, part)

\* Display for Parts: the parts joined by '/'
Parts_fmt(parts) == Join(parts, HSEP)

----------------------------------------------------------------------------
(* Root (src/model/root.rs) *)

\* IdType::generate_id: the n-th generated value, rendered.  Two calls never
\* return the same value.
generate_id(n) == <<"u" \o ToString(n)>>

\* DynamicType::new: the tag of a type-safe id is made of letters only
DynamicType_ok(tag) ==
    /\ Len(tag) > 0
    /\ \A i \in 1..Len(tag) : tag[i] \notin {SEP, HSEP}

\* TypeSafeId::from_type_and_uuid(tag, uuid).to_string()
TypeSafeId_fmt(tag, uuid) == tag \o <<"_">> \o uuid

\* a Root::new that stores the tag itself and generates nothing
Root_new_Verbatim(value, n) ==
    LET tag == IF Len(value) = 0 THEN ACTON ELSE value
    IN IF DynamicType_ok(tag) THEN Ok(tag) ELSE Err("IdGenerationFailure", <<>>)

\* Root::new(value), the generator standing at n: an empty value takes the
\* tag ACTON; the stored name is the rendered type-safe id, never the value.
Root_new(value, n) ==
    LET tag == IF Len(value) = 0 THEN ACTON ELSE value
    IN IF DynamicType_ok(tag)
       THEN Ok(TypeSafeId_fmt(tag, generate_id(n)))
       ELSE Err("IdGenerationFailure", <<>>)

\* Root::from_str: the literal string, no generation
Root_from_str(s) == s

\* a default root that is one fixed value, generated once
Root_default_Fixed(n) == TypeSafeId_fmt(ACTON, generate_id(0))

\* Root::default(): Root::new("").expect(..)
Root_default(n) == Root_new(<<>>, n).val

----------------------------------------------------------------------------
(* The identifier value (src/model/ern.rs) *)

\* Eid::new
Eid_new(domain, category, account, root, parts) ==
    [domain |-> domain, category |-> category, account |-> account,
     root |-> root, parts |-> parts]

\* Display for Eid
Eid_fmt(x) ==
    LET display == DomainPrefix \o x.domain \o <<SEP>> \o x.category \o <<SEP>>
                   \o x.account \o <<SEP>> \o x.root
    IN IF Len(x.parts) # 0
       THEN display \o <<HSEP>> \o Parts_fmt(x.parts)
       ELSE display

\* an Add that keeps the right operand's root
Eid_add_RhsRoot(self, rhs) ==
    Eid_new(self.domain, self.category, self.account, rhs.root,
            self.parts \o rhs.parts)

\* Add for Eid: self + rhs
Eid_add(self, rhs) ==
    Eid_new(self.domain, self.category, self.account, self.root,
            self.parts \o rhs.parts)

\* Default for Eid, the generator standing at n
Eid_default(n) ==
    Eid_new(Domain_default, Category_default, Account_default,
            Root_default(n), Parts_default)

\* Eid::with_root(root): the root is made first, then ..Default::default()
\* builds a whole default identifier (generating once more) whose root is dropped
Eid_with_root(raw, n) ==
    LET root == Root_new(raw, n)
    IN IF ~root.ok THEN root
       ELSE Ok([Eid_default(n + 1) EXCEPT !.root = root.val])

\* Eid::with_new_root(&self, new_root)
Eid_with_new_root(self, raw, n) ==
    LET new_root == Root_new(raw, n)
    IN IF ~new_root.ok THEN new_root
       ELSE Ok(Eid_new(self.domain, self.category, self.account,
                       new_root.val, self.parts))

\* Eid::with_domain(domain)
Eid_with_domain(raw, n) ==
    LET domain == Domain_new(raw)
    IN IF ~domain.ok THEN domain
       ELSE Ok(Eid_new(domain.val, Category_default, Account_default,
                       Root_default(n), Parts_default))

\* Eid::with_category(category)
Eid_with_category(raw, n) ==
    Ok(Eid_new(Domain_default, Category_new(raw), Account_default,
               Root_default(n), Parts_default))

\* Eid::with_account(account)
Eid_with_account(raw, n) ==
    Ok(Eid_new(Domain_default, Category_default, Account_new(raw),
               Root_default(n), Parts_default))

\* Eid::add_part(&self, part)
Eid_add_part(self, raw) ==
    LET part == Part_new(raw)
    IN IF ~part.ok THEN part
       ELSE Ok(Eid_new(self.domain, self.category, self.account, self.root,
                       Append(self.parts, part.val)))

\* a collect that drops the elements that are no valid part
RECURSIVE CollectParts_SkipInvalid(_)
CollectParts_SkipInvalid(raws) ==
    IF Len(raws) = 0 THEN Ok(<<>>)
    ELSE LET part == Part_new(Head(raws))
             rest == CollectParts_SkipInvalid(Tail(raws))
         IN IF ~part.ok THEN rest ELSE Ok(<<part.val>> \o rest.val)

\* parts.into_iter().map(Part::new).collect::<Result<Vec<Part>, _>>():
\* the first failing element's error, else every part
RECURSIVE CollectParts(_)
CollectParts(raws) ==
    IF Len(raws) = 0 THEN Ok(<<>>)
    ELSE LET part == Part_new(Head(raws))
         IN IF ~part.ok THEN part
            ELSE LET rest == CollectParts(Tail(raws))
                 IN IF ~rest.ok THEN rest ELSE Ok(<<part.val>> \o rest.val)

\* Eid::with_parts(&self, parts)
Eid_with_parts(self, raws) ==
    LET new_parts == CollectParts(raws)
    IN IF ~new_parts.ok THEN new_parts
       ELSE Ok(Eid_new(self.domain, self.category, self.account, self.root,
                       new_parts.val))

\* an is_child_of that compares the lengths with <=
Eid_is_child_of_Le(self, other) ==
    /\ self.domain = other.domain
    /\ self.category = other.category
    /\ self.account = other.account
    /\ self.root = other.root
    /\ Len(other.parts) <= Len(self.parts)
    /\ StartsWith(self.parts, other.parts)

\* Eid::is_child_of(&self, other)
Eid_is_child_of(self, other) ==
    /\ self.domain = other.domain
    /\ self.category = other.category
    /\ self.account = other.account
    /\ self.root = other.root
    /\ Len(other.parts) < Len(self.parts)
    /\ StartsWith(self.parts, other.parts)

\* a parent that drops the first part instead of the last
Eid_parent_DropFirst(self) ==
    IF Len(self.parts) = 0
    THEN None
    ELSE Some(Eid_new(self.domain, self.category, self.account, self.root,
                      Tail(self.parts)))

\* Eid::parent(&self)
Eid_parent(self) ==
    IF Len(self.parts) = 0
    THEN None
    ELSE Some(Eid_new(self.domain, self.category, self.account, self.root,
                      SubSeq(self.parts, 1, Len(self.parts) - 1)))

----------------------------------------------------------------------------
(* The parser *)

\* ErnParser::parse: strip the prefix, split on ':' into four fields, split
\* the fourth on the first '/', build every segment from its substring
ErnParser_parse(s) ==
    IF ~StartsWith(s, DomainPrefix) \/ Len(s) = Len(DomainPrefix)
    THEN Err("InvalidFormat", <<>>)
    ELSE
      LET fields == SplitN(SubSeq(s, Len(DomainPrefix) + 1, Len(s)), SEP, 4)
      IN IF Len(fields) < 4 THEN Err("InvalidFormat", <<>>)
         ELSE
           LET root_path == SplitN(fields[4], HSEP, 2)
               domain == Domain_new(fields[1])
               parts == IF Len(root_path) > 1
                        THEN CollectParts(Split(root_path[2], HSEP))
                        ELSE Ok(<<>>)
           IN IF ~domain.ok THEN domain
              ELSE IF ~parts.ok THEN parts
              ELSE Ok(Eid_new(domain.val, Category_new(fields[2]),
                              Account_new(fields[3]),
                              Root_from_str(root_path[1]), parts.val))

----------------------------------------------------------------------------
(* The builder (src/builder.rs) *)

Kinds == {"Domain", "Category", "Account", "Root", "Part", "Parts"}

\* ErnComponent::NextState of each segment kind
NextState(kind) ==
    CASE kind = "Domain" -> "Category"
      [] kind = "Category" -> "Account"
      [] kind = "Account" -> "Root"
      [] kind = "Root" -> "Part"
      [] kind = "Part" -> "Parts"
      [] kind = "Parts" -> "Parts"

\* ErnComponent::prefix() of each segment kind
prefix(kind) ==
    CASE kind = "Domain" -> DomainPrefix
      [] kind = "Parts" -> <<SEP>>
      [] OTHER -> <<>>

\* the prefixes the accumulator can be handed: the three it knows and one it does not
Prefixes == {DomainPrefix, <<>>, <<SEP>>, <<"x">>}

\* PrivateErnBuilder::new
PrivateErnBuilder_new ==
    [domain |-> None, category |-> None, account |-> None, root |-> None,
     parts |-> <<>>]

\* a routing that tries the account slot before the category slot
SlotFor_AccountFirst(self, pre) ==
    IF pre = DomainPrefix THEN "domain"
    ELSE IF pre = <<>> THEN
        IF self.domain.some /\ ~self.account.some THEN "account"
        ELSE IF self.account.some /\ ~self.category.some THEN "category"
        ELSE IF self.category.some /\ ~self.root.some THEN "root"
        ELSE "parts"
    ELSE IF pre = <<SEP>> THEN "parts"
    ELSE "invalid"

\* the match of PrivateErnBuilder::add_part: the slot a value with this
\* prefix goes to, given the slots already filled
SlotFor(self, pre) ==
    IF pre = DomainPrefix THEN "domain"
    ELSE IF pre = <<>> THEN
        IF self.domain.some /\ ~self.category.some THEN "category"
        ELSE IF self.category.some /\ ~self.account.some THEN "account"
        ELSE IF self.account.some /\ ~self.root.some THEN "root"
        ELSE "parts"
    ELSE IF pre = <<SEP>> THEN "parts"
    ELSE "invalid"

\* PrivateErnBuilder::add_part(self, prefix, part), the generator standing at n
PrivateErnBuilder_add_part(self, pre, part, n) ==
    LET slot == SlotFor(self, pre)
    IN CASE slot = "domain" ->
              LET d == Domain_new(part)
              IN IF ~d.ok THEN d ELSE Ok([self EXCEPT !.domain = Some(d.val)])
         [] slot = "category" ->
              Ok([self EXCEPT !.category = Some(Category_new(part))])
         [] slot = "account" ->
              Ok([self EXCEPT !.account = Some(Account_new(part))])
         [] slot = "root" ->
              LET r == Root_new(part, n)
              IN IF ~r.ok THEN r ELSE Ok([self EXCEPT !.root = Some(r.val)])
         [] slot = "parts" ->
              LET q == Part_new(part)
              IN IF ~q.ok THEN q
                 ELSE Ok([self EXCEPT !.parts = Parts_add_part(self.parts, q.val)])
         [] OTHER -> Err("InvalidPrefix", pre)

\* a build that does not look at the root slot
PrivateErnBuilder_build_NoRootCheck(self) ==
    IF ~self.domain.some THEN Err("MissingPart", <<"domain">>)
    ELSE IF ~self.category.some THEN Err("MissingPart", <<"category">>)
    ELSE IF ~self.account.some THEN Err("MissingPart", <<"account">>)
    ELSE Ok(Eid_new(self.domain.val, self.category.val, self.account.val,
                    IF self.root.some THEN self.root.val ELSE <<>>, self.parts))

\* PrivateErnBuilder::build(self)
PrivateErnBuilder_build(self) ==
    IF ~self.domain.some THEN Err("MissingPart", <<"domain">>)
    ELSE IF ~self.category.some THEN Err("MissingPart", <<"category">>)
    ELSE IF ~self.account.some THEN Err("MissingPart", <<"account">>)
    ELSE IF ~self.root.some THEN Err("MissingPart", <<"root">>)
    ELSE Ok(Eid_new(self.domain.val, self.category.val, self.account.val,
                    self.root.val, self.parts))

\* a `with` bound that lets every kind through in every state
WithAllowed_Any(state, N) == N \in Kinds

\* the bound on ErnBuilder<Component>::with::<N>:
\* N: ErnComponent<NextState = Component::NextState>
WithAllowed(state, N) == N \in Kinds /\ NextState(N) = NextState(state)

\* a build() that is also offered before the root has been supplied
BuildStates_Early == {"Root", "Part", "Parts"}

\* the states whose type has a build() method: ErnBuilder<Part>, ErnBuilder<Parts>
BuildStates == {"Part", "Parts"}

\* whether add_part ran the generator: the root slot went from empty to set
Generated(before, r) == r.ok /\ ~before.root.some /\ r.val.root.some

----------------------------------------------------------------------------
(* The typed builder driven from ErnBuilder::new() to build(), then the       *)
(* built identifier rendered and parsed back.                                 *)

Init ==
    /\ st = "Domain"                     \* ErnBuilder::new() -> ErnBuilder<Domain>
    /\ acc = PrivateErnBuilder_new
    /\ supplied = <<>>
    /\ outcome = NoResult
    /\ parsed = NoResult
    /\ nextId = 0
    /\ minted = <<>>
    /\ p = Eid_new(<<>>, <<>>, <<>>, <<>>, <<>>)
    /\ last = [op |-> "none"]

\* ErnBuilder::with::<N>(part)
With(N, part) ==
    /\ st \in Kinds
    /\ WithAllowed(st, N)
    /\ Len(acc.parts) < MaxParts
    /\ LET r == PrivateErnBuilder_add_part(acc, prefix(N), part, nextId)
       IN /\ nextId' = IF Generated(acc, r) THEN nextId + 1 ELSE nextId
          /\ minted' = IF Generated(acc, r)
                       THEN Append(minted, [raw |-> part, root |-> r.val.root.val])
                       ELSE minted
          /\ supplied' = Append(supplied, [kind |-> N, raw |-> part, ok |-> r.ok])
          /\ IF r.ok
             THEN /\ acc' = r.val
                  /\ st' = NextState(N)
                  /\ UNCHANGED outcome
             ELSE /\ st' = "Consumed"
                  /\ outcome' = r
                  /\ UNCHANGED acc
    /\ UNCHANGED <<parsed, p, last>>

\* ErnBuilder<Part>::build / ErnBuilder<Parts>::build
Build ==
    /\ st \in BuildStates
    /\ outcome' = PrivateErnBuilder_build(acc)
    /\ st' = "Built"
    /\ UNCHANGED <<acc, supplied, parsed, nextId, minted, p, last>>

\* ErnParser::new(ern.to_string()).parse()
ParseBuilt ==
    /\ st = "Built"
    /\ outcome.ok
    /\ parsed = NoResult
    /\ parsed' = ErnParser_parse(Eid_fmt(outcome.val))
    /\ UNCHANGED <<st, acc, supplied, outcome, nextId, minted, p, last>>

Next ==
    \/ \E N \in Kinds, part \in Raws : With(N, part)
    \/ Build
    \/ ParseBuilt

Spec == Init /\ [][Next]_vars

----------------------------------------------------------------------------
(* The accumulator driven directly: any prefix at any time, build() at any   *)
(* time.                                                                      *)

InitAcc ==
    /\ st = "Acc"
    /\ acc = PrivateErnBuilder_new
    /\ supplied = <<>>
    /\ outcome = NoResult
    /\ parsed = NoResult
    /\ nextId = 0
    /\ minted = <<>>
    /\ p = Eid_new(<<>>, <<>>, <<>>, <<>>, <<>>)
    /\ last = [op |-> "none"]

\* PrivateErnBuilder::add_part(prefix, part)
AccAddPart(pre, part) ==
    /\ st = "Acc"
    /\ Len(acc.parts) < MaxParts
    /\ LET r == PrivateErnBuilder_add_part(acc, pre, part, nextId)
       IN /\ nextId' = IF Generated(acc, r) THEN nextId + 1 ELSE nextId
          /\ minted' = IF Generated(acc, r)
                       THEN Append(minted, [raw |-> part, root |-> r.val.root.val])
                       ELSE minted
          /\ last' = [op |-> "acc_add_part", recv |-> acc, pre |-> pre,
                      arg |-> part, slot |-> SlotFor(acc, pre), out |-> r]
          /\ IF r.ok
             THEN /\ acc' = r.val
                  /\ UNCHANGED <<st, outcome>>
             ELSE /\ st' = "Consumed"
                  /\ outcome' = r
                  /\ UNCHANGED acc
    /\ UNCHANGED <<supplied, parsed, p>>

\* PrivateErnBuilder::build()
AccBuild ==
    /\ st = "Acc"
    /\ outcome' = PrivateErnBuilder_build(acc)
    /\ st' = "AccBuilt"
    /\ UNCHANGED <<acc, supplied, parsed, nextId, minted, p, last>>

NextAcc ==
    \/ \E pre \in Prefixes, part \in Raws : AccAddPart(pre, part)
    \/ AccBuild

SpecAcc == InitAcc /\ [][NextAcc]_vars

----------------------------------------------------------------------------
(* The identifier operations, each applied once to an identifier made by     *)
(* Eid::new from valid segments.                                              *)

SegVals == { <<"a">>, <<"b">> }

\* the identifiers Eid::new makes from parsed segments and up to MaxParts parts
Eids ==
    { Eid_new(d, c, a, r, ps) :
        d \in SegVals, c \in SegVals, a \in SegVals, r \in SegVals,
        ps \in SeqsUpTo(SegVals, MaxParts) }

InitEid ==
    /\ st = "Eid"
    /\ acc = PrivateErnBuilder_new
    /\ supplied = <<>>
    /\ outcome = NoResult
    /\ parsed = NoResult
    /\ nextId = 0
    /\ minted = <<>>
    /\ p \in Eids
    /\ last = [op |-> "none"]

\* p.add_part(raw)
EidAddPart(raw) ==
    /\ last.op = "none"
    /\ last' = [op |-> "add_part", recv |-> p, arg |-> raw,
                out |-> Eid_add_part(p, raw)]
    /\ UNCHANGED <<st, acc, supplied, outcome, parsed, nextId, minted, p>>

\* p.with_parts(raws)
EidWithParts(raws) ==
    /\ last.op = "none"
    /\ last' = [op |-> "with_parts", recv |-> p, arg |-> raws,
                out |-> Eid_with_parts(p, raws)]
    /\ UNCHANGED <<st, acc, supplied, outcome, parsed, nextId, minted, p>>

\* p.parent()
EidParent ==
    /\ last.op = "none"
    /\ last' = [op |-> "parent", recv |-> p, out |-> Eid_parent(p)]
    /\ UNCHANGED <<st, acc, supplied, outcome, parsed, nextId, minted, p>>

\* p.is_child_of(&other)
EidIsChildOf(other) ==
    /\ last.op = "none"
    /\ last' = [op |-> "is_child_of", recv |-> p, arg |-> other,
                out |-> Eid_is_child_of(p, other)]
    /\ UNCHANGED <<st, acc, supplied, outcome, parsed, nextId, minted, p>>

\* p + rhs
EidAdd(rhs) ==
    /\ last.op = "none"
    /\ last' = [op |-> "add", recv |-> p, arg |-> rhs, out |-> Eid_add(p, rhs)]
    /\ UNCHANGED <<st, acc, supplied, outcome, parsed, nextId, minted, p>>

NextEid ==
    \/ \E raw \in Raws : EidAddPart(raw)
    \/ \E raws \in SeqsUpTo(Raws, MaxParts) : EidWithParts(raws)
    \/ EidParent
    \/ \E other \in Eids : EidIsChildOf(other)
    \/ \E rhs \in Eids : EidAdd(rhs)

SpecEid == InitEid /\ [][NextEid]_vars

----------------------------------------------------------------------------
(* Root synthesis and the constructors that run it.                           *)

InitRoot ==
    /\ st = "Root"
    /\ acc = PrivateErnBuilder_new
    /\ supplied = <<>>
    /\ outcome = NoResult
    /\ parsed = NoResult
    /\ nextId = 0
    /\ minted = <<>>
    /\ p = Eid_new(<<>>, <<>>, <<>>, <<>>, <<>>)
    /\ last = [op |-> "none"]

\* Root::new(raw)
RootNew(raw) ==
    /\ nextId < MaxIds
    /\ LET r == Root_new(raw, nextId)
       IN /\ last' = [op |-> "root_new", arg |-> raw, out |-> r]
          /\ nextId' = IF r.ok THEN nextId + 1 ELSE nextId
          /\ minted' = IF r.ok THEN Append(minted, [raw |-> raw, root |-> r.val])
                       ELSE minted
    /\ UNCHANGED <<st, acc, supplied, outcome, parsed, p>>

\* Eid::default(); the record keeps the caller's previous identifier and the
\* call that made it
EidDefault ==
    /\ nextId < MaxIds
    /\ LET x == Eid_default(nextId)
       IN /\ p' = x
          /\ last' = [op |-> "default", out |-> Ok(x), prevOp |-> last.op, prev |-> p]
          /\ minted' = Append(minted, [raw |-> <<>>, root |-> x.root])
    /\ nextId' = nextId + 1
    /\ UNCHANGED <<st, acc, supplied, outcome, parsed>>

\* Eid::with_domain(raw): Root::default() runs only once the domain is valid
EidWithDomain(raw) ==
    /\ nextId < MaxIds
    /\ LET r == Eid_with_domain(raw, nextId)
       IN /\ last' = [op |-> "with_domain", arg |-> raw, out |-> r]
          /\ p' = IF r.ok THEN r.val ELSE p
          /\ nextId' = IF r.ok THEN nextId + 1 ELSE nextId
          /\ minted' = IF r.ok THEN Append(minted, [raw |-> <<>>, root |-> r.val.root])
                       ELSE minted
    /\ UNCHANGED <<st, acc, supplied, outcome, parsed>>

\* Eid::with_category(raw)
EidWithCategory(raw) ==
    /\ nextId < MaxIds
    /\ LET r == Eid_with_category(raw, nextId)
       IN /\ last' = [op |-> "with_category", arg |-> raw, out |-> r]
          /\ p' = r.val
          /\ minted' = Append(minted, [raw |-> <<>>, root |-> r.val.root])
    /\ nextId' = nextId + 1
    /\ UNCHANGED <<st, acc, supplied, outcome, parsed>>

\* Eid::with_account(raw)
EidWithAccount(raw) ==
    /\ nextId < MaxIds
    /\ LET r == Eid_with_account(raw, nextId)
       IN /\ last' = [op |-> "with_account", arg |-> raw, out |-> r]
          /\ p' = r.val
          /\ minted' = Append(minted, [raw |-> <<>>, root |-> r.val.root])
    /\ nextId' = nextId + 1
    /\ UNCHANGED <<st, acc, supplied, outcome, parsed>>

\* Eid::with_root(raw): Root::new(raw), then the default identifier's own root
EidWithRoot(raw) ==
    /\ nextId + 1 < MaxIds
    /\ LET r == Eid_with_root(raw, nextId)
       IN /\ last' = [op |-> "with_root", arg |-> raw, out |-> r]
          /\ p' = IF r.ok THEN r.val ELSE p
          /\ nextId' = IF r.ok THEN nextId + 2 ELSE nextId
          /\ minted' = IF r.ok
                       THEN minted \o << [raw |-> raw, root |-> r.val.root],
                                         [raw |-> <<>>, root |-> Root_default(nextId + 1)] >>
                       ELSE minted
    /\ UNCHANGED <<st, acc, supplied, outcome, parsed>>

\* p.with_new_root(raw)
EidWithNewRoot(raw) ==
    /\ nextId < MaxIds
    /\ LET r == Eid_with_new_root(p, raw, nextId)
       IN /\ last' = [op |-> "with_new_root", recv |-> p, arg |-> raw, out |-> r]
          /\ nextId' = IF r.ok THEN nextId + 1 ELSE nextId
          /\ minted' = IF r.ok THEN Append(minted, [raw |-> raw, root |-> r.val.root])
                       ELSE minted
    /\ UNCHANGED <<st, acc, supplied, outcome, parsed, p>>

NextRoot ==
    \/ \E raw \in Raws : RootNew(raw)
    \/ EidDefault
    \/ \E raw \in Raws : EidWithDomain(raw)
    \/ \E raw \in Raws : EidWithCategory(raw)
    \/ \E raw \in Raws : EidWithAccount(raw)
    \/ \E raw \in Raws : EidWithRoot(raw)
    \/ \E raw \in Raws : EidWithNewRoot(raw)

SpecRoot == InitRoot /\ [][NextRoot]_vars

----------------------------------------------------------------------------
(* Claims about the builder and the parser *)

NonEmpty(s) == Len(s) > 0

\* C1 (as stated): every identifier the typed builder builds is parsed back,
\* from its rendered form, to an identifier equal to it in all five fields.
RoundTrip ==
    (st = "Built" /\ outcome.ok /\ parsed # NoResult)
        => (parsed.ok /\ parsed.val = outcome.val)

\* the kind the i-th call of an accepted sequence must have
KindAt(i) ==
    CASE i = 1 -> {"Domain"}
      [] i = 2 -> {"Category"}
      [] i = 3 -> {"Account"}
      [] i = 4 -> {"Root"}
      [] OTHER -> {"Part", "Parts"}

\* C2: in every call sequence the typed builder accepts, the kinds come in
\* the order Domain, Category, Account, Root, then parts only; and build()
\* is offered only once Root has been supplied.
OrderEnforced ==
    /\ \A i \in 1..Len(supplied) : supplied[i].kind \in KindAt(i)
    /\ (st \in BuildStates \/ st = "Built")
          => (Len(supplied) >= 4 /\ supplied[4].kind = "Root" /\ supplied[4].ok)

OrderEnforcedWitness ==
    /\ st \in BuildStates
    /\ Len(supplied) >= 6
    /\ supplied[5].kind = "Part"
    /\ supplied[6].kind = "Parts"

\* the first slot, in the order domain, category, account, root, that is empty
Slots == <<"domain", "category", "account", "root">>
Absent(b, i) == ~b[Slots[i]].some
AllSet(b) == \A i \in 1..4 : ~Absent(b, i)
FirstAbsent(b) ==
    Slots[CHOOSE i \in 1..4 : Absent(b, i) /\ \A j \in 1..(i-1) : ~Absent(b, j)]

\* C3: the accumulator's build() returns Ok exactly when the four required
\* slots are set, and otherwise MissingPart naming the first empty slot in the
\* order domain, category, account, root.
MissingPartFailure ==
    st = "AccBuilt" =>
        /\ outcome.ok <=> AllSet(acc)
        /\ ~AllSet(acc) => outcome = Err("MissingPart", <<FirstAbsent(acc)>>)

MissingPartFailureWitness ==
    /\ st = "AccBuilt"
    /\ acc.domain.some /\ acc.category.some /\ acc.account.some
    /\ ~acc.root.some
    /\ outcome = Err("MissingPart", <<"root">>)

\* the tag Root::new renders for a raw root value
TagOf(raw) == IF Len(raw) = 0 THEN ACTON ELSE raw

\* C4: after Domain(d), Category(c), Account(a), Root(r), Part(p1..pn), all Ok,
\* build() returns the identifier with domain d, category c, account a, a root
\* whose rendered form begins with r (with "acton" for an empty r), and parts
\* p1..pn in call order.
BuilderResult ==
    st = "Built" =>
        /\ outcome.ok
        /\ outcome.val.domain = supplied[1].raw
        /\ outcome.val.category = supplied[2].raw
        /\ outcome.val.account = supplied[3].raw
        /\ StartsWith(outcome.val.root, TagOf(supplied[4].raw) \o <<"_">>)
        /\ outcome.val.parts = [i \in 1..(Len(supplied) - 4) |-> supplied[i + 4].raw]

BuilderResultWitness ==
    /\ st = "Built"
    /\ outcome.ok
    /\ Len(outcome.val.parts) >= 2
    /\ outcome.val.parts[1] # outcome.val.parts[2]
    /\ outcome.val.category # outcome.val.account
    /\ supplied[4].raw = <<>>

\* C10 (as stated): the domain, category, account and root of every built
\* identifier are non-empty strings.
NonEmptySegments ==
    (st = "Built" /\ outcome.ok) =>
        /\ NonEmpty(outcome.val.domain)
        /\ NonEmpty(outcome.val.category)
        /\ NonEmpty(outcome.val.account)
        /\ NonEmpty(outcome.val.root)

----------------------------------------------------------------------------
(* Claims about the identifier operations and root synthesis *)

SameIdentity(x, y) ==
    /\ x.domain = y.domain
    /\ x.category = y.category
    /\ x.account = y.account
    /\ x.root = y.root

\* s without its last element
Front(s) == [i \in 1..(Len(s) - 1) |-> s[i]]

\* C5: C = P.add_part(c) is a child of P and C.parent() is Some(P); parent()
\* is None exactly when the parts are empty, else the same identifier with
\* the last part removed.
ParentChild ==
    /\ (last.op = "add_part" /\ last.out.ok) =>
          /\ Eid_is_child_of(last.out.val, last.recv)
          /\ Eid_parent(last.out.val) = Some(last.recv)
    /\ last.op = "parent" =>
          /\ ~last.out.some <=> Len(last.recv.parts) = 0
          /\ last.out.some =>
                /\ SameIdentity(last.out.val, last.recv)
                /\ last.out.val.parts = Front(last.recv.parts)

ParentChildWitness ==
    /\ last.op = "add_part"
    /\ last.out.ok
    /\ Len(last.recv.parts) = 2
    /\ last.recv.parts[1] # last.recv.parts[2]

\* C6: P + C has P's domain, category, account and root, whatever C's are,
\* and P's parts followed by C's parts.
Concatenation ==
    last.op = "add" =>
        LET P == last.recv
            C == last.arg
            R == last.out
        IN /\ SameIdentity(R, P)
           /\ Len(R.parts) = Len(P.parts) + Len(C.parts)
           /\ \A i \in 1..Len(P.parts) : R.parts[i] = P.parts[i]
           /\ \A j \in 1..Len(C.parts) : R.parts[Len(P.parts) + j] = C.parts[j]
           /\ Len(C.parts) = 0 => R.parts = P.parts
           /\ Len(P.parts) = 0 => R.parts = C.parts

ConcatenationWitness ==
    /\ last.op = "add"
    /\ last.recv.domain # last.arg.domain
    /\ last.recv.root # last.arg.root
    /\ Len(last.recv.parts) > 0
    /\ Len(last.arg.parts) > 0
    /\ last.recv.parts # last.arg.parts

\* C7: no two successful Root::new calls return equal roots.
Uniqueness ==
    \A i, j \in 1..Len(minted) : i # j => minted[i].root # minted[j].root

UniquenessWitness ==
    /\ Len(minted) >= 3
    /\ \E i, j \in 1..Len(minted) :
          i # j /\ minted[i].raw = minted[j].raw /\ NonEmpty(minted[i].raw)
    /\ \E k \in 1..Len(minted) : minted[k].raw = <<>>

\* C8: a.is_child_of(b) iff a and b agree on domain, category, account and
\* root, b has strictly fewer parts, and b's parts are a prefix of a's; no
\* identifier is a child of itself.
IsChildOfIff ==
    /\ last.op = "is_child_of" =>
          LET a == last.recv
              b == last.arg
          IN last.out <=>
                /\ SameIdentity(a, b)
                /\ Len(b.parts) < Len(a.parts)
                /\ \A i \in 1..Len(b.parts) : a.parts[i] = b.parts[i]
    /\ ~Eid_is_child_of(p, p)

IsChildOfIffWitness ==
    /\ last.op = "is_child_of"
    /\ last.out
    /\ Len(last.recv.parts) = Len(last.arg.parts) + 2

\* whether every element of raws passes Part validation
AllValid(raws) == \A i \in 1..Len(raws) : Part_new(raws[i]).ok

\* C9: add_part and with_parts return an error and no identifier when an
\* element fails Part validation; otherwise add_part appends the part and
\* with_parts replaces the parts; the receiver keeps its value and the result
\* keeps the receiver's domain, category, account and root.
AllOrNothing ==
    /\ last.op = "add_part" =>
          /\ last.out.ok <=> Part_new(last.arg).ok
          /\ last.out.ok =>
                /\ last.out.val.parts = last.recv.parts \o <<last.arg>>
                /\ SameIdentity(last.out.val, last.recv)
          /\ p = last.recv
    /\ last.op = "with_parts" =>
          /\ last.out.ok <=> AllValid(last.arg)
          /\ last.out.ok =>
                /\ last.out.val.parts = last.arg
                /\ SameIdentity(last.out.val, last.recv)
          /\ p = last.recv

AllOrNothingWitness ==
    /\ last.op = "with_parts"
    /\ ~last.out.ok
    /\ Len(last.arg) = 2
    /\ Part_new(last.arg[1]).ok
    /\ Len(last.recv.parts) > 0

----------------------------------------------------------------------------
(* Claims about the defaults and the builder's runtime checks *)

\* the roots Root::new returned for the empty input, which is Root::default()
DefaultRoots == { i \in 1..Len(minted) : minted[i].raw = <<>> }

\* two default-constructed identifiers in a row: the caller's previous one
\* and the one just returned
TwoDefaults == last.op = "default" /\ last.prevOp = "default"

\* C11 (as stated): every default() of a segment type returns that type's one
\* fixed value, Root included, so two default-constructed identifiers are equal.
FixedDefaults ==
    /\ \A i, j \in DefaultRoots : minted[i].root = minted[j].root
    /\ TwoDefaults => last.out.val = last.prev

\* C11 (amended): the defaults of Domain, Category and Account are fixed
\* values; Root::default() synthesizes a fresh root with the tag "acton" on
\* every call, so two default-constructed identifiers agree on domain,
\* category, account and parts and differ in their root.
FixedDefaultsExceptRoot ==
    /\ \A i, j \in DefaultRoots :
          /\ StartsWith(minted[i].root, ACTON \o <<"_">>)
          /\ i # j => minted[i].root # minted[j].root
    /\ TwoDefaults =>
          /\ last.out.val.domain = Domain_default
          /\ last.out.val.category = Category_default
          /\ last.out.val.account = Account_default
          /\ last.out.val.parts = Parts_default
          /\ last.out.val.domain = last.prev.domain
          /\ last.out.val.category = last.prev.category
          /\ last.out.val.account = last.prev.account
          /\ last.out.val.parts = last.prev.parts
          /\ last.out.val.root # last.prev.root

FixedDefaultsExceptRootWitness ==
    /\ TwoDefaults
    /\ last.out.val.root # last.prev.root
    /\ Cardinality(DefaultRoots) >= 2

\* the last accumulator call handed a well-formed value that was routed to a
\* required slot already set
SlotAlreadyFilled ==
    /\ last.op = "acc_add_part"
    /\ last.slot \in {"domain", "category", "account", "root"}
    /\ last.recv[last.slot].some
    /\ ~FormatViolation(last.arg)

\* C12 (as stated): add_part handed a segment whose target slot is already
\* filled returns UnexpectedPart and leaves the slot's stored value as it was.
UnexpectedPartOnFilledSlot ==
    SlotAlreadyFilled =>
        /\ ~last.out.ok
        /\ last.out.err.kind = "UnexpectedPart"
        /\ acc[last.slot] = last.recv[last.slot]

\* C13: in every typed-builder state that offers build(), the four required
\* slots of the accumulator are set, so build() returns Ok; no call made
\* through the typed builder ends in MissingPart.
NoMissingPart ==
    /\ st \in BuildStates => AllSet(acc)
    /\ st = "Built" => outcome.ok
    /\ ~outcome.ok => outcome.err.kind # "MissingPart"

NoMissingPartWitness ==
    /\ st = "Built"
    /\ outcome.ok
    /\ Len(supplied) = 4
    /\ supplied[4].kind = "Root"

====
